---- MODULE Spec2Model ----
(***************************************************************************)
(* A model of the chess rules engine of chez: Position, Piece, Board       *)
(* (src/src/piece.rs, src/src/board.rs).  The board is the Vec<Piece> of   *)
(* Board, modelled as a sequence in Vec order; the move generators are     *)
(* operators that build their Vec<Position> result in the order the code   *)
(* pushes to it.                                                           *)
(***************************************************************************)
EXTENDS Integers, Sequences, FiniteSets

VARIABLES
    pieces,      \* Board.pieces: Vec<Piece>
    pre,         \* Board.pieces as it was when the last move_piece call began
    call,        \* the last move_piece call: its arguments and how it ended
    moves_made,  \* number of move_piece calls made so far
    selected,        \* GameState.selected: Option<Position>
    possible_moves,  \* GameState.possible_moves: Vec<Position>
    stack            \* the calls in progress while a king's moves are computed

vars == <<pieces, pre, call, moves_made, selected, possible_moves, stack>>

\* the part of the state a game session adds to the board
session == <<selected, possible_moves>>

----------------------------------------------------------------------------
(* Bounds of the exploration *)

\* largest number of pieces on a board the exploration starts from
MaxPieces == 3

\* largest number of move_piece calls in one behaviour
MaxMoves == 1

\* largest number of returning move_piece calls made on the board of Board::new
MaxCalls == 2

\* largest number of generated moves played from the board of Board::new
MaxPlies == 6

\* largest number of moves made in one game session
MaxSessionMoves == 2

\* largest number of calls in progress at once
MaxDepth == 6

----------------------------------------------------------------------------
(* Option<T>: None is the empty sequence, Some(x) the one-element sequence *)

None == << >>

Some(x) == << x >>

is_none(o) == o = << >>

is_some(o) == o # << >>

unwrap(o) == o[1]

Range(s) == { s[i] : i \in 1..Len(s) }

----------------------------------------------------------------------------
(* color.rs / piece.rs: Color, Position, PieceKind, Piece *)

Colors == {"Black", "White"}

invert(color) == IF color = "Black" THEN "White" ELSE "Black"

Kinds == {"King", "Queen", "Rook", "Bishop", "Knight", "Pawn"}

\* Position { row, column }; Position::new(column, row) and From<(i8, i8)>
Pos(column, row) == [column |-> column, row |-> row]

\* the lowest and the highest on-board coordinate
BoardMin == 0

BoardMax == 7

is_on_board(position) ==
    /\ position.column <= BoardMax
    /\ position.column >= BoardMin
    /\ position.row <= BoardMax
    /\ position.row >= BoardMin

\* Piece::new sets has_moved to false
NewPiece(kind, color, position) ==
    [kind |-> kind, color |-> color, position |-> position, has_moved |-> FALSE]

\* a piece that has already been moved to where it stands
MovedPiece(kind, color, position) ==
    [kind |-> kind, color |-> color, position |-> position, has_moved |-> TRUE]

----------------------------------------------------------------------------
(* board.rs: queries *)

\* iter().position(|piece| piece.position == *position): the index of the
\* first piece standing there, 0 when there is none
position_of(ps, position) ==
    IF \E i \in 1..Len(ps) : ps[i].position = position
    THEN CHOOSE i \in 1..Len(ps) :
            /\ ps[i].position = position
            /\ \A j \in 1..(i - 1) : ps[j].position # position
    ELSE 0

get_piece(ps, position) ==
    LET i == position_of(ps, position)
    IN  IF i = 0 THEN None ELSE Some(ps[i])

\* the pieces of the given color, in Vec order
get_pieces(ps, color) == SelectSeq(ps, LAMBDA piece : piece.color = color)

----------------------------------------------------------------------------
(* board.rs: mutation *)

\* a removal that drops the last piece of the Vec instead of the i-th
RemoveLast(ps, i) == [k \in 1..(Len(ps) - 1) |-> ps[k]]

\* Vec::remove(i)
RemoveAt(ps, i) == [k \in 1..(Len(ps) - 1) |-> IF k < i THEN ps[k] ELSE ps[k + 1]]

\* take_piece_at that hands out the piece and leaves it on the board
take_piece_at_not_removed(ps, position) ==
    LET i == position_of(ps, position)
    IN  IF i # 0
        THEN [pieces |-> ps, taken |-> Some(ps[i])]
        ELSE [pieces |-> ps, taken |-> None]

\* take_piece_at: the board without the first piece at position, and that piece
take_piece_at(ps, position) ==
    LET i == position_of(ps, position)
    IN  IF i # 0
        THEN [pieces |-> RemoveAt(ps, i), taken |-> Some(ps[i])]
        ELSE [pieces |-> ps, taken |-> None]

\* the rows on which a pawn that arrives is promoted
PromotionRows == {0, 7}

\* promotion on the far row of the pawn's own color only
promoted_kind_far_row_only(piece_to_move, to) ==
    IF /\ piece_to_move.kind = "Pawn"
       /\ to.row = (IF piece_to_move.color = "White" THEN 7 ELSE 0)
    THEN "Queen"
    ELSE piece_to_move.kind

\* no promotion at all
promoted_kind_never(piece_to_move, to) == piece_to_move.kind

\* the kind the `if piece_to_move.kind == Pawn && [0, 7].contains(&to.row)`
\* of move_piece leaves the piece with
promoted_kind(piece_to_move, to) ==
    IF piece_to_move.kind = "Pawn" /\ to.row \in PromotionRows
    THEN "Queen"
    ELSE piece_to_move.kind

\* the relocation without the assignment to has_moved
relocate_flag_untouched(piece_to_move, to) ==
    [piece_to_move EXCEPT !.position = to,
                          !.kind = promoted_kind(piece_to_move, to)]

\* what move_piece assigns to piece_to_move
relocate(piece_to_move, to) ==
    [piece_to_move EXCEPT !.position = to,
                          !.has_moved = TRUE,
                          !.kind = promoted_kind(piece_to_move, to)]

\* move_piece that returns the taken piece when nothing stands at from
move_piece_missing_from_ignored(ps, from, to) ==
    LET taken == take_piece_at(ps, to)
        i     == position_of(taken.pieces, from)
    IN  IF i = 0
        THEN [pieces |-> taken.pieces, outcome |-> "returned", ret |-> taken.taken]
        ELSE [pieces |-> [taken.pieces EXCEPT ![i] = relocate(taken.pieces[i], to)],
              outcome |-> "returned",
              ret |-> taken.taken]

\* move_piece: the board it leaves, how it ended ("returned", or "panicked":
\* the unwrap of get_piece_mut(from) on None) and the value it returned
move_piece(ps, from, to) ==
    LET taken == take_piece_at(ps, to)
        i     == position_of(taken.pieces, from)
    IN  IF i = 0
        THEN [pieces |-> taken.pieces, outcome |-> "panicked", ret |-> None]
        ELSE [pieces |-> [taken.pieces EXCEPT ![i] = relocate(taken.pieces[i], to)],
              outcome |-> "returned",
              ret |-> taken.taken]

----------------------------------------------------------------------------
(* piece.rs: move generation.  Every generator returns its Vec<Position> as *)
(* a sequence, in the order the code pushes the squares.                    *)

\* the closures of pawn_moves, chosen by the pawn's color
straight_move_1(color, position) ==
    IF color = "Black"
    THEN Pos(position.column, position.row - 1)
    ELSE Pos(position.column, position.row + 1)

diagonal_take_left(color, position) ==
    IF color = "Black"
    THEN Pos(position.column + 1, position.row - 1)
    ELSE Pos(position.column + 1, position.row + 1)

diagonal_take_right(color, position) ==
    IF color = "Black"
    THEN Pos(position.column - 1, position.row - 1)
    ELSE Pos(position.column - 1, position.row + 1)

\* a diagonal take that does not look at the color of the piece found
diagonal_take_any_color(piece, ps, diagonal) ==
    IF is_some(get_piece(ps, diagonal)) THEN <<diagonal>> ELSE << >>

\* the `if let Some(other_piece) = board.get_piece(..) && other_piece.color
\* != piece.color { moves.push(..) }` of pawn_moves
diagonal_take(piece, ps, diagonal) ==
    LET other_piece == get_piece(ps, diagonal)
    IN  IF is_some(other_piece) /\ unwrap(other_piece).color # piece.color
        THEN <<diagonal>>
        ELSE << >>

\* pawn_moves whose two-square advance does not ask that ahead_1 is free
pawn_moves_jumping(piece, ps) ==
    LET ahead_1 == straight_move_1(piece.color, piece.position)
        ahead_2 == straight_move_1(piece.color, ahead_1)
        first == IF is_none(get_piece(ps, ahead_1)) THEN <<ahead_1>> ELSE << >>
        second == IF ~piece.has_moved /\ is_none(get_piece(ps, ahead_2))
                  THEN <<ahead_2>> ELSE << >>
    IN  first \o second
        \o diagonal_take(piece, ps, diagonal_take_left(piece.color, piece.position))
        \o diagonal_take(piece, ps, diagonal_take_right(piece.color, piece.position))

pawn_moves(piece, ps) ==
    LET ahead_1 == straight_move_1(piece.color, piece.position)
        ahead_2 == straight_move_1(piece.color, ahead_1)
        straight ==
            IF piece.has_moved
            THEN IF is_none(get_piece(ps, ahead_1)) THEN <<ahead_1>> ELSE << >>
            ELSE IF is_none(get_piece(ps, ahead_1))
                 THEN IF is_none(get_piece(ps, ahead_2))
                      THEN <<ahead_1, ahead_2>>
                      ELSE <<ahead_1>>
                 ELSE << >>
    IN  straight
        \o diagonal_take(piece, ps, diagonal_take_left(piece.color, piece.position))
        \o diagonal_take(piece, ps, diagonal_take_right(piece.color, piece.position))

\* a how_to_move closure is the step it adds: [column, row]
Dir(column, row) == [column |-> column, row |-> row]

how_to_move(d, position) == Pos(position.column + d.column, position.row + d.row)

\* the closures of bishop_moves and of rook_moves, in array order
BishopDirections == <<Dir(1, 1), Dir(1, -1), Dir(-1, 1), Dir(-1, -1)>>

RookDirections == <<Dir(1, 0), Dir(-1, 0), Dir(0, 1), Dir(0, -1)>>

\* the loop without the push of the square an opposing piece stands on
RECURSIVE direction_loop_no_take(_, _, _, _)
direction_loop_no_take(piece, ps, d, moves) ==
    LET previous_position ==
            IF moves # << >> THEN moves[Len(moves)] ELSE piece.position
        possible_next_move == how_to_move(d, previous_position)
    IN  IF is_some(get_piece(ps, possible_next_move))
        THEN moves
        ELSE IF is_on_board(possible_next_move)
             THEN direction_loop_no_take(piece, ps, d, Append(moves, possible_next_move))
             ELSE moves

\* the loop of moves_in_direction, entered with the squares pushed so far
RECURSIVE direction_loop(_, _, _, _)
direction_loop(piece, ps, d, moves) ==
    LET previous_position ==
            IF moves # << >> THEN moves[Len(moves)] ELSE piece.position
        possible_next_move == how_to_move(d, previous_position)
        other_piece == get_piece(ps, possible_next_move)
    IN  IF is_some(other_piece)
        THEN IF unwrap(other_piece).color # piece.color
             THEN Append(moves, possible_next_move)
             ELSE moves
        ELSE IF is_on_board(possible_next_move)
             THEN direction_loop(piece, ps, d, Append(moves, possible_next_move))
             ELSE moves

moves_in_direction(piece, ps, d) == direction_loop(piece, ps, d, << >>)

\* moves.extend_from_slice over the directions, in order
RECURSIVE extend_directions(_, _, _)
extend_directions(piece, ps, directions) ==
    IF directions = << >> THEN << >>
    ELSE moves_in_direction(piece, ps, Head(directions))
         \o extend_directions(piece, ps, Tail(directions))

bishop_moves(piece, ps) == extend_directions(piece, ps, BishopDirections)

rook_moves(piece, ps) == extend_directions(piece, ps, RookDirections)

queen_moves(piece, ps) == rook_moves(piece, ps) \o bishop_moves(piece, ps)

\* the eight candidate squares of knight_moves, in array order
knight_candidates(position) ==
    <<Pos(position.column + 2, position.row + 1),
      Pos(position.column + 2, position.row - 1),
      Pos(position.column + 1, position.row + 2),
      Pos(position.column + 1, position.row - 2),
      Pos(position.column - 2, position.row + 1),
      Pos(position.column - 2, position.row - 1),
      Pos(position.column - 1, position.row + 2),
      Pos(position.column - 1, position.row - 2)>>

\* knight_moves without the is_on_board filter
knight_moves_off_board(piece, ps) ==
    LET free_or_enemy(position) ==
            LET other_piece == get_piece(ps, position)
            IN  IF is_some(other_piece)
                THEN unwrap(other_piece).color # piece.color
                ELSE TRUE
    IN  SelectSeq(knight_candidates(piece.position), free_or_enemy)

knight_moves(piece, ps) ==
    LET free_or_enemy(position) ==
            LET other_piece == get_piece(ps, position)
            IN  IF is_some(other_piece)
                THEN unwrap(other_piece).color # piece.color
                ELSE TRUE
    IN  SelectSeq(SelectSeq(knight_candidates(piece.position), is_on_board),
                  free_or_enemy)

\* the candidate squares of king_moves: column over [-1, 0, 1], inside it row
\* over [-1, 0, 1], the square itself left out
king_candidates(position) ==
    <<Pos(position.column - 1, position.row - 1),
      Pos(position.column - 1, position.row),
      Pos(position.column - 1, position.row + 1),
      Pos(position.column, position.row - 1),
      Pos(position.column, position.row + 1),
      Pos(position.column + 1, position.row - 1),
      Pos(position.column + 1, position.row),
      Pos(position.column + 1, position.row + 1)>>

\* the HashSet of king_moves: where the other pieces of the king's color stand
same_color_piece_positions(piece, ps) ==
    { other_piece.position :
        other_piece \in { q \in Range(get_pieces(ps, piece.color)) : q # piece } }

\* Piece::attacks, which Board::all_attacks calls, is not among the sources.
\* It is modelled from the specification: the pseudo-move destinations of the
\* piece, a king contributing its adjacent squares that are on the board and
\* not held by its own color, without the filter on the opponent's attacks.
attacks(piece, ps) ==
    IF piece.kind = "King"
    THEN LET same_color == same_color_piece_positions(piece, ps)
             reach(position) == is_on_board(position) /\ position \notin same_color
         IN  SelectSeq(king_candidates(piece.position), reach)
    ELSE IF piece.kind = "Queen" THEN queen_moves(piece, ps)
    ELSE IF piece.kind = "Rook" THEN rook_moves(piece, ps)
    ELSE IF piece.kind = "Bishop" THEN bishop_moves(piece, ps)
    ELSE IF piece.kind = "Knight" THEN knight_moves(piece, ps)
    ELSE pawn_moves(piece, ps)

\* Board::all_attacks: the HashSet extended with every piece's attacks
all_attacks(ps, color) ==
    UNION { Range(attacks(piece, ps)) : piece \in Range(get_pieces(ps, color)) }

\* king_moves without the filter on all_enemy_attacks
king_moves_into_attacks(piece, ps) ==
    LET same_color == same_color_piece_positions(piece, ps)
        keep(position) == is_on_board(position) /\ position \notin same_color
    IN  SelectSeq(king_candidates(piece.position), keep)

king_moves(piece, ps) ==
    LET same_color == same_color_piece_positions(piece, ps)
        all_enemy_attacks == all_attacks(ps, invert(piece.color))
        keep(position) ==
            /\ is_on_board(position)
            /\ position \notin same_color
            /\ position \notin all_enemy_attacks
    IN  SelectSeq(king_candidates(piece.position), keep)

\* Piece::moves
moves(piece, ps) ==
    IF piece.kind = "King" THEN king_moves(piece, ps)
    ELSE IF piece.kind = "Queen" THEN queen_moves(piece, ps)
    ELSE IF piece.kind = "Rook" THEN rook_moves(piece, ps)
    ELSE IF piece.kind = "Bishop" THEN bishop_moves(piece, ps)
    ELSE IF piece.kind = "Knight" THEN knight_moves(piece, ps)
    ELSE pawn_moves(piece, ps)

----------------------------------------------------------------------------
(* The boards the exploration starts from *)

\* Board::new: the 32 pieces in Vec order
BackRank == <<"Rook", "Knight", "Bishop", "Queen", "King", "Bishop", "Knight", "Rook">>

NewBoard ==
    [c \in 1..8 |-> NewPiece(BackRank[c], "White", Pos(c - 1, 0))]
    \o [c \in 1..8 |-> NewPiece("Pawn", "White", Pos(c - 1, 1))]
    \o [c \in 1..8 |-> NewPiece(BackRank[c], "Black", Pos(c - 1, 7))]
    \o [c \in 1..8 |-> NewPiece("Pawn", "Black", Pos(c - 1, 6))]

\* Pieces as boards reached by move_piece calls from Board::new hold them: a
\* piece with has_moved = false still stands on its square of Board::new
Palette == <<
    NewPiece("Rook", "White", Pos(0, 0)),
    MovedPiece("King", "White", Pos(1, 0)),
    NewPiece("Bishop", "White", Pos(2, 0)),
    NewPiece("Pawn", "White", Pos(1, 1)),
    MovedPiece("Pawn", "Black", Pos(2, 1)),
    MovedPiece("Pawn", "Black", Pos(0, 2)),
    MovedPiece("King", "Black", Pos(1, 2)),
    MovedPiece("Knight", "White", Pos(2, 2)),
    MovedPiece("Rook", "Black", Pos(1, 3)),
    MovedPiece("Queen", "Black", Pos(2, 3)),
    NewPiece("Pawn", "Black", Pos(1, 6))
>>

\* the ways to pick at most n palette pieces, no two on one square: each pick
\* is the increasing sequence of the indices picked
RECURSIVE Picks(_)
Picks(n) ==
    IF n = 0 THEN { << >> }
    ELSE LET shorter == Picks(n - 1)
             fits(s, j) ==
                 /\ Len(s) = n - 1
                 /\ s = << >> \/ j > s[Len(s)]
                 /\ \A k \in 1..Len(s) : Palette[s[k]].position # Palette[j].position
         IN  shorter \cup
             { Append(x[1], x[2]) :
                 x \in { y \in shorter \X (1..Len(Palette)) : fits(y[1], y[2]) } }

\* the boards of one to MaxPieces palette pieces
InitBoards ==
    { [k \in 1..Len(s) |-> Palette[s[k]]] : s \in Picks(MaxPieces) \ { << >> } }

\* a square no palette piece stands on and no move goes to
EmptySquare == Pos(7, 4)

\* the squares a move_piece call may name as `from`
FromSquares(ps) == { ps[i].position : i \in 1..Len(ps) } \cup {EmptySquare}

\* the squares a move_piece call may name as `to`
ToSquares == { Pos(0, 0), Pos(1, 2), Pos(1, 7), Pos(1, 8) }

NoCall == [op |-> "none", from |-> EmptySquare, to |-> EmptySquare,
           outcome |-> "none", ret |-> None]

----------------------------------------------------------------------------
(* The state machine *)

Init ==
    /\ pieces \in InitBoards
    /\ pre = pieces
    /\ call = NoCall
    /\ moves_made = 0
    /\ selected = None
    /\ possible_moves = << >>
    /\ stack = << >>

\* one call board.move_piece(&from, &to)
MovePiece(from, to) ==
    /\ moves_made < MaxMoves
    /\ LET r == move_piece(pieces, from, to)
       IN  /\ pieces' = r.pieces
           /\ call' = [op |-> "move_piece", from |-> from, to |-> to,
                       outcome |-> r.outcome, ret |-> r.ret]
    /\ pre' = pieces
    /\ moves_made' = moves_made + 1
    /\ UNCHANGED <<session, stack>>

Next == \E from \in FromSquares(pieces), to \in ToSquares : MovePiece(from, to)

Spec == Init /\ [][Next]_vars

----------------------------------------------------------------------------
(* The board of Board::new under move_piece calls that return *)

InitNew ==
    /\ pieces = NewBoard
    /\ pre = pieces
    /\ call = NoCall
    /\ moves_made = 0
    /\ selected = None
    /\ possible_moves = << >>
    /\ stack = << >>

\* the squares the calls on the board of Board::new name as `from` and as `to`
AnyFromSquares == { Pos(0, 0), Pos(1, 1), Pos(3, 6), Pos(4, 7), Pos(3, 3), Pos(1, 8) }

AnyToSquares == { Pos(0, 0), Pos(1, 1), Pos(4, 7), Pos(3, 3), Pos(1, 8) }

\* one call board.move_piece(&from, &to) that returns
ReturningMove(from, to) ==
    /\ moves_made < MaxCalls
    /\ LET r == move_piece(pieces, from, to)
       IN  /\ r.outcome = "returned"
           /\ pieces' = r.pieces
           /\ call' = [op |-> "move_piece", from |-> from, to |-> to,
                       outcome |-> r.outcome, ret |-> r.ret]
    /\ pre' = pieces
    /\ moves_made' = moves_made + 1
    /\ UNCHANGED <<session, stack>>

NextAny == \E from \in AnyFromSquares, to \in AnyToSquares : ReturningMove(from, to)

SpecAny == InitNew /\ [][NextAny]_vars

----------------------------------------------------------------------------
(* The board of Board::new under generated moves: a piece is picked and     *)
(* move_piece is called with one of the destinations piece.moves returns    *)

\* the squares a piece is picked from
GameFromSquares ==
    { Pos(0, 1), Pos(0, 3), Pos(0, 4), Pos(0, 5), Pos(1, 6),
      Pos(1, 0), Pos(2, 2), Pos(1, 4), Pos(3, 5) }

GeneratedMove(from, to) ==
    /\ moves_made < MaxPlies
    /\ is_some(get_piece(pieces, from))
    /\ to \in Range(moves(unwrap(get_piece(pieces, from)), pieces))
    /\ LET r == move_piece(pieces, from, to)
       IN  /\ pieces' = r.pieces
           /\ call' = [op |-> "move_piece", from |-> from, to |-> to,
                       outcome |-> r.outcome, ret |-> r.ret]
    /\ pre' = pieces
    /\ moves_made' = moves_made + 1
    /\ UNCHANGED <<session, stack>>

\* the destinations offered for the piece picked at a square
Offered(ps, from) ==
    IF is_some(get_piece(ps, from))
    THEN Range(moves(unwrap(get_piece(ps, from)), ps))
    ELSE {}

NextGame ==
    \E from \in GameFromSquares : \E to \in Offered(pieces, from) : GeneratedMove(from, to)

SpecGame == InitNew /\ [][NextGame]_vars

----------------------------------------------------------------------------
(* main.rs: one game session.  games_create makes the GameState with the    *)
(* board of Board::new, selected None and possible_moves empty; every       *)
(* square_clicked request runs under the lock of the application state, one *)
(* at a time.                                                               *)

\* Piece::possible_moves, which square_clicked calls, is not among the
\* sources.  It is modelled from the specification: the destinations that
\* Piece::moves computes for the piece just selected.
piece_possible_moves(piece, ps) == moves(piece, ps)

\* the squares clicked
ClickSquares == { Pos(4, 1), Pos(4, 2), Pos(4, 3), Pos(3, 6), Pos(3, 4), Pos(7, 4) }

\* what the database does during a request: the pool hands out no
\* connection, the insert into moves fails, or both succeed
DbResults == {"acquire_fails", "insert_fails", "ok"}

Clicked(position, outcome, ret) ==
    [op |-> "square_clicked",
     from |-> IF is_some(selected) THEN unwrap(selected) ELSE position,
     to |-> position, outcome |-> outcome, ret |-> ret]

\* one request PUT /games/{game_id}/play/square_clicked?column=..&row=..
SquareClicked(position, db) ==
    /\ moves_made < MaxSessionMoves
    /\ pre' = pieces
    /\ UNCHANGED stack
    /\ IF db = "acquire_fails"
       THEN \* state.pool.acquire().await? returns the error
            /\ call' = Clicked(position, "error", None)
            /\ UNCHANGED <<pieces, moves_made, session>>
       ELSE IF is_some(selected)
       THEN IF unwrap(selected) = position
            THEN /\ selected' = None
                 /\ call' = Clicked(position, "ok", None)
                 /\ UNCHANGED <<pieces, moves_made, possible_moves>>
            ELSE IF position \in Range(possible_moves)
            THEN IF is_none(get_piece(pieces, unwrap(selected)))
                 THEN \* board.get_piece(&selected).unwrap() panics
                      /\ call' = Clicked(position, "panicked", None)
                      /\ UNCHANGED <<pieces, moves_made, session>>
                 ELSE LET r == move_piece(pieces, unwrap(selected), position)
                      IN  /\ pieces' = r.pieces
                          /\ moves_made' = moves_made + 1
                          /\ IF r.outcome = "panicked"
                             THEN /\ call' = Clicked(position, "panicked", None)
                                  /\ UNCHANGED session
                             ELSE IF db = "insert_fails"
                             THEN \* .execute(&mut *conn).await? returns the error
                                  /\ call' = Clicked(position, "error", r.ret)
                                  /\ UNCHANGED session
                             ELSE /\ call' = Clicked(position, "ok", r.ret)
                                  /\ selected' = None
                                  /\ possible_moves' = << >>
            ELSE /\ selected' = None
                 /\ possible_moves' = << >>
                 /\ call' = Clicked(position, "ok", None)
                 /\ UNCHANGED <<pieces, moves_made>>
       ELSE IF is_some(get_piece(pieces, position))
            THEN /\ possible_moves' =
                      piece_possible_moves(unwrap(get_piece(pieces, position)), pieces)
                 /\ selected' = Some(position)
                 /\ call' = Clicked(position, "ok", None)
                 /\ UNCHANGED <<pieces, moves_made>>
            ELSE /\ possible_moves' = << >>
                 /\ call' = Clicked(position, "ok", None)
                 /\ UNCHANGED <<pieces, moves_made, selected>>

NextSession == \E position \in ClickSquares, db \in DbResults : SquareClicked(position, db)

SpecSession == InitNew /\ [][NextSession]_vars

----------------------------------------------------------------------------
(* The calls made while the moves of a piece are computed: Piece::moves     *)
(* calls king_moves for a king, king_moves calls Board::all_attacks, and    *)
(* all_attacks calls a generator for every piece of the color.  stack holds *)
(* one frame per call in progress, the running call last.                   *)

\* a frame at its entry: i counts the steps taken, set and seq hold what the
\* calls made so far have returned
Frame(fn, piece, color) ==
    [fn |-> fn, piece |-> piece, color |-> color, i |-> 1, set |-> {}, seq |-> << >>]

Top == stack[Len(stack)]

\* what the generators return for every piece of every board the calls are
\* made on, computed once per board: the board does not change during a call
Generated ==
    [ps \in InitBoards |->
        [n \in 1..Len(ps) |->
            [attacks |-> attacks(ps[n], ps),
             moves |-> IF ps[n].kind = "King" THEN << >> ELSE moves(ps[n], ps)]]]

GeneratedFor(piece) == Generated[pieces][CHOOSE n \in 1..Len(pieces) : pieces[n] = piece]

\* the method all_attacks calls on each piece, as if it were Piece::moves
all_attacks_callee_moves == "moves"

\* the method all_attacks calls on each piece
all_attacks_callee == "attacks"

\* a call: the callee's frame goes on top of the caller's
Push(frame) ==
    /\ Len(stack) < MaxDepth
    /\ stack' = Append(stack, frame)
    /\ UNCHANGED call

\* the caller's frame once the call it made has returned result
Receive(caller, result) ==
    IF caller.fn = "all_attacks"
    THEN \* attacks.extend(moves)
         [caller EXCEPT !.set = @ \cup Range(result), !.i = @ + 1]
    ELSE IF caller.fn = "king_moves"
    THEN \* let all_enemy_attacks = ...
         [caller EXCEPT !.set = result, !.i = 2]
    ELSE [caller EXCEPT !.seq = result, !.i = 2]

\* a return: the frame is popped and the caller resumes with the result
Return(result) ==
    IF Len(stack) = 1
    THEN /\ stack' = << >>
         /\ call' = [call EXCEPT !.outcome = "returned", !.ret = result]
    ELSE /\ stack' = Append(SubSeq(stack, 1, Len(stack) - 2),
                            Receive(stack[Len(stack) - 1], result))
         /\ UNCHANGED call

\* a caller asks a piece of the board for its moves
CallMoves(piece) ==
    /\ Len(stack) = 0
    /\ stack' = << Frame("moves", piece, piece.color) >>
    /\ call' = [op |-> "moves", from |-> piece.position, to |-> piece.position,
                outcome |-> "running", ret |-> None]
    /\ UNCHANGED <<pieces, pre, moves_made, session>>

\* Piece::moves
MovesStep ==
    /\ Len(stack) > 0
    /\ Top.fn = "moves"
    /\ IF Top.i = 2
       THEN Return(Top.seq)
       ELSE IF Top.piece.kind = "King"
       THEN Push(Frame("king_moves", Top.piece, Top.piece.color))
       ELSE Return(GeneratedFor(Top.piece).moves)
    /\ UNCHANGED <<pieces, pre, moves_made, session>>

\* king_moves
KingMovesStep ==
    /\ Len(stack) > 0
    /\ Top.fn = "king_moves"
    /\ IF Top.i = 1
       THEN Push(Frame("all_attacks", Top.piece, invert(Top.piece.color)))
       ELSE LET same_color == same_color_piece_positions(Top.piece, pieces)
                all_enemy_attacks == Top.set
                keep(position) ==
                    /\ is_on_board(position)
                    /\ position \notin same_color
                    /\ position \notin all_enemy_attacks
            IN  Return(SelectSeq(king_candidates(Top.piece.position), keep))
    /\ UNCHANGED <<pieces, pre, moves_made, session>>

\* Board::all_attacks
AllAttacksStep ==
    /\ Len(stack) > 0
    /\ Top.fn = "all_attacks"
    /\ LET of_color == get_pieces(pieces, Top.color)
       IN  IF Top.i <= Len(of_color)
           THEN Push(Frame(all_attacks_callee, of_color[Top.i], of_color[Top.i].color))
           ELSE Return(Top.set)
    /\ UNCHANGED <<pieces, pre, moves_made, session>>

\* Piece::attacks, modelled from the specification: it computes the piece's
\* pseudo-moves itself and calls neither king_moves nor all_attacks
AttacksStep ==
    /\ Len(stack) > 0
    /\ Top.fn = "attacks"
    /\ Return(GeneratedFor(Top.piece).attacks)
    /\ UNCHANGED <<pieces, pre, moves_made, session>>

Step == MovesStep \/ KingMovesStep \/ AllAttacksStep \/ AttacksStep

NextCalls == (\E piece \in Range(pieces) : CallMoves(piece)) \/ Step

\* a call in progress is run to its next step: the engine is synchronous and
\* nothing suspends it
SpecCalls == Init /\ [][NextCalls]_vars /\ WF_vars(Step)

----------------------------------------------------------------------------
(* Vocabulary of the claims *)

\* a move_piece call has been made; pre is the board it began with
Called == call.op = "move_piece"

Returned == Called /\ call.outcome = "returned"

Panicked == Called /\ call.outcome = "panicked"

\* the pieces that stood on a square of a board
PiecesAt(ps, position) == { ps[i] : i \in { k \in 1..Len(ps) : ps[k].position = position } }

Occupied(ps, position) == \E i \in 1..Len(ps) : ps[i].position = position

OccupiedBy(ps, position, color) ==
    \E i \in 1..Len(ps) : ps[i].position = position /\ ps[i].color = color

NoSharedSquare(ps) ==
    \A i, j \in 1..Len(ps) : ps[i].position = ps[j].position => i = j

AllOnBoard(ps) == \A i \in 1..Len(ps) : is_on_board(ps[i].position)

\* the piece that stood at `from` when the call began
Mover == CHOOSE q \in PiecesAt(pre, call.from) : TRUE

\* what the claims say the mover is after the call
MoverAfter ==
    [Mover EXCEPT !.position = call.to,
                  !.has_moved = TRUE,
                  !.kind = IF Mover.kind = "Pawn" /\ (call.to.row = 0 \/ call.to.row = 7)
                           THEN "Queen" ELSE Mover.kind]

\* a call the contract of move_piece covers: a piece at `from`, from # to
ProperCall ==
    /\ Called
    /\ NoSharedSquare(pre)
    /\ call.from # call.to
    /\ Occupied(pre, call.from)

----------------------------------------------------------------------------
(* C1: on a board with no shared square, move_piece(from, to) with a piece *)
(* at from and from # to returns the piece that stood at `to`, which is    *)
(* then gone from the board (one piece fewer); when `to` was empty it      *)
(* returns None and the number of pieces is unchanged.                     *)
C1_CaptureReturnedAndRemoved ==
    ProperCall =>
        /\ call.outcome = "returned"
        /\ IF Occupied(pre, call.to)
           THEN /\ is_some(call.ret)
                /\ PiecesAt(pre, call.to) = {unwrap(call.ret)}
                /\ Len(pieces) = Len(pre) - 1
                /\ \A i \in 1..Len(pieces) :
                     pieces[i] = unwrap(call.ret)
                        => /\ i = position_of(pieces, call.to)
                           /\ pieces[i] = MoverAfter
                /\ Cardinality(PiecesAt(pieces, call.to)) = 1
           ELSE /\ call.ret = None
                /\ Len(pieces) = Len(pre)

\* a capture has happened
C1_Witness ==
    /\ ProperCall
    /\ Occupied(pre, call.to)
    /\ Returned
    /\ is_some(call.ret)
    /\ Len(pieces) = Len(pre) - 1

(* C2: after move_piece(from, to) with a piece P at from and from # to,    *)
(* get_piece(to) is P (its color) with has_moved = true, get_piece(from)   *)
(* is none; has_moved is true whatever it was before.                      *)
C2_MovedPieceRelocated ==
    ProperCall =>
        /\ call.outcome = "returned"
        /\ is_some(get_piece(pieces, call.to))
        /\ unwrap(get_piece(pieces, call.to)).color = Mover.color
        /\ unwrap(get_piece(pieces, call.to)).has_moved = TRUE
        /\ unwrap(get_piece(pieces, call.to)).position = call.to
        /\ unwrap(get_piece(pieces, call.to)).kind \in {Mover.kind, "Queen"}
        /\ is_none(get_piece(pieces, call.from))

\* a piece that had not moved before has been moved onto an occupied square
C2_Witness ==
    /\ ProperCall
    /\ Returned
    /\ Mover.has_moved = FALSE
    /\ Occupied(pre, call.to)
    /\ unwrap(get_piece(pieces, call.to)).has_moved = TRUE

(* C3: after move_piece(from, to) the moved piece is a Queen if it was a   *)
(* Pawn and to.row is 0 or 7, whatever the pawn's color; otherwise its     *)
(* kind is unchanged (a pawn arriving on rows 1..6 stays a Pawn).          *)
C3_PromotionOnEitherBackRank ==
    (ProperCall /\ Returned) =>
        /\ is_some(get_piece(pieces, call.to))
        /\ unwrap(get_piece(pieces, call.to)).kind =
              IF Mover.kind = "Pawn" /\ (call.to.row = 0 \/ call.to.row = 7)
              THEN "Queen"
              ELSE Mover.kind

\* a White pawn has arrived on row 0 and is a Queen
C3_Witness ==
    /\ ProperCall
    /\ Returned
    /\ Mover.kind = "Pawn"
    /\ Mover.color = "White"
    /\ call.to.row = 0
    /\ unwrap(get_piece(pieces, call.to)).kind = "Queen"

(* C4: move_piece(from, to) with no piece at from never returns: it ends   *)
(* in a panic.                                                             *)
C4_MissingFromPanics ==
    (Called /\ ~Occupied(pre, call.from)) => call.outcome = "panicked"

\* move_piece was called with an empty from and panicked
C4_Witness ==
    /\ Called
    /\ ~Occupied(pre, call.from)
    /\ Panicked

(* C5: when move_piece(from, to) fails because no piece stands at from,    *)
(* none of its effects has been applied: the board is as it was, a piece   *)
(* that stood at `to` is still on it.                                      *)
C5_NoPartialFailure ==
    (Called /\ ~Occupied(pre, call.from) /\ Panicked) =>
        /\ pieces = pre
        /\ \A q \in PiecesAt(pre, call.to) : q \in Range(pieces)

(* C6: for every move_piece call with a piece P at from, to = from         *)
(* included, the call returns, what it returns is what stood at `to` and   *)
(* is never P, P is on the board at `to` afterwards and has_moved is true. *)
C6_NeverCapturesItself ==
    (Called /\ NoSharedSquare(pre) /\ Occupied(pre, call.from)) =>
        /\ call.outcome = "returned"
        /\ call.ret # Some(Mover)
        /\ is_some(get_piece(pieces, call.to))
        /\ unwrap(get_piece(pieces, call.to)).color = Mover.color
        /\ unwrap(get_piece(pieces, call.to)).has_moved = TRUE

----------------------------------------------------------------------------
(* C7: the destinations of a king K are exactly the adjacent squares that  *)
(* are on the board, not held by a piece of K's color and not in           *)
(* all_attacks(opposite color); none of them is attacked by the opponent.  *)
Adjacent(position) ==
    { Pos(position.column + dc, position.row + dr) :
        dc \in {-1, 0, 1}, dr \in {-1, 0, 1} } \ {position}

----------------------------------------------------------------------------
(* C8: on a board whose pieces are all on-board, each ray of a rook,       *)
(* bishop or queen is the run of consecutive squares outward from the      *)
(* piece, nearest first, up to the board edge, up to and including the     *)
(* first opposing piece, or up to but excluding the first piece of its own *)
(* color.  Rook: the 4 orthogonal rays, bishop: the 4 diagonal, queen: 8.  *)
Orthogonal == { Dir(1, 0), Dir(-1, 0), Dir(0, 1), Dir(0, -1) }

Diagonal == { Dir(1, 1), Dir(1, -1), Dir(-1, 1), Dir(-1, -1) }

RaysOf(kind) ==
    IF kind = "Rook" THEN Orthogonal
    ELSE IF kind = "Bishop" THEN Diagonal
    ELSE Orthogonal \cup Diagonal

\* the square k steps from the piece along d
RaySquare(piece, d, k) ==
    Pos(piece.position.column + k * d.column, piece.position.row + k * d.row)

\* the k-th square of the ray ends it: it is off the board or occupied
Ends(piece, ps, d, k) ==
    \/ ~is_on_board(RaySquare(piece, d, k))
    \/ Occupied(ps, RaySquare(piece, d, k))

\* the distance, from k on, of the first square that ends the ray
RECURSIVE FirstEnd(_, _, _, _)
FirstEnd(piece, ps, d, k) ==
    IF Ends(piece, ps, d, k) THEN k ELSE FirstEnd(piece, ps, d, k + 1)

\* the squares before the first one that ends the ray, and that one too when
\* an opposing piece stands on it
ExpectedRay(piece, ps, d) ==
    LET first == FirstEnd(piece, ps, d, 1)
        last == RaySquare(piece, d, first)
        n == IF is_on_board(last) /\ OccupiedBy(ps, last, invert(piece.color))
             THEN first ELSE first - 1
    IN  [k \in 1..n |-> RaySquare(piece, d, k)]

C8_SlidingRays ==
    AllOnBoard(pieces) =>
        \A i \in 1..Len(pieces) :
            pieces[i].kind \in {"Rook", "Bishop", "Queen"} =>
                LET expected == [d \in RaysOf(pieces[i].kind) |->
                                    ExpectedRay(pieces[i], pieces, d)]
                IN  /\ \A d \in RaysOf(pieces[i].kind) :
                         moves_in_direction(pieces[i], pieces, d) = expected[d]
                    /\ Range(moves(pieces[i], pieces)) =
                         UNION { Range(expected[d]) : d \in RaysOf(pieces[i].kind) }

\* a sliding piece with one ray ended by an opposing piece, which it may
\* take, and another ended by a piece of its own color
C8_Witness ==
    /\ AllOnBoard(pieces)
    /\ \E i \in 1..Len(pieces) :
         /\ pieces[i].kind \in {"Rook", "Bishop", "Queen"}
         /\ \E d \in RaysOf(pieces[i].kind) : \E k \in 2..7 :
              /\ OccupiedBy(pieces, RaySquare(pieces[i], d, k), invert(pieces[i].color))
              /\ Len(moves_in_direction(pieces[i], pieces, d)) = k
         /\ \E d \in RaysOf(pieces[i].kind) : \E k \in 2..7 :
              /\ OccupiedBy(pieces, RaySquare(pieces[i], d, k), pieces[i].color)
              /\ Len(moves_in_direction(pieces[i], pieces, d)) = k - 1

----------------------------------------------------------------------------
(* C9: straight ahead (row + 1 for White, row - 1 for Black) a pawn offers *)
(* the one-ahead square iff it is unoccupied; a pawn that has not moved    *)
(* offers the two-ahead square iff both are unoccupied; a pawn that has    *)
(* moved never offers it.  An occupied straight-ahead square is never      *)
(* offered.                                                                *)
Forward(piece, k) ==
    Pos(piece.position.column,
        IF piece.color = "White" THEN piece.position.row + k
                                 ELSE piece.position.row - k)

\* how many of the squares a generator returned are in a set
CountIn(seq, S) == Cardinality({ i \in 1..Len(seq) : seq[i] \in S })

C9_PawnForward ==
    \A i \in 1..Len(pieces) :
        pieces[i].kind = "Pawn" =>
            LET P == pieces[i]
                m == moves(P, pieces)
                one == ~Occupied(pieces, Forward(P, 1))
                two == /\ ~P.has_moved
                       /\ ~Occupied(pieces, Forward(P, 1))
                       /\ ~Occupied(pieces, Forward(P, 2))
            IN  /\ Forward(P, 1) \in Range(m) <=> one
                /\ Forward(P, 2) \in Range(m) <=> two
                /\ CountIn(m, { q \in Range(m) : q.column = P.position.column })
                     = (IF one THEN 1 ELSE 0) + (IF two THEN 1 ELSE 0)

\* a pawn that has not moved, its one-ahead square occupied and its two-ahead
\* square free, and nothing straight ahead offered
C9_Witness ==
    \E i \in 1..Len(pieces) :
        /\ pieces[i].kind = "Pawn"
        /\ ~pieces[i].has_moved
        /\ Occupied(pieces, Forward(pieces[i], 1))
        /\ ~Occupied(pieces, Forward(pieces[i], 2))
        /\ Forward(pieces[i], 1) \notin Range(moves(pieces[i], pieces))
        /\ Forward(pieces[i], 2) \notin Range(moves(pieces[i], pieces))

----------------------------------------------------------------------------
(* C10: each of a pawn's two forward-diagonal squares is among its         *)
(* destinations iff a piece of the opposing color stands on it; never when *)
(* it is empty or holds a piece of the pawn's color.                       *)
ForwardDiagonals(piece) ==
    { Pos(piece.position.column + dc, Forward(piece, 1).row) : dc \in {-1, 1} }

C10_PawnDiagonals ==
    \A i \in 1..Len(pieces) :
        pieces[i].kind = "Pawn" =>
            \A q \in ForwardDiagonals(pieces[i]) :
                q \in Range(moves(pieces[i], pieces))
                    <=> OccupiedBy(pieces, q, invert(pieces[i].color))

\* a pawn with an opposing piece on one forward diagonal, which it may take,
\* and a piece of its own color on the other, which it may not
C10_Witness ==
    \E i \in 1..Len(pieces) :
        /\ pieces[i].kind = "Pawn"
        /\ \E q \in ForwardDiagonals(pieces[i]) :
             /\ OccupiedBy(pieces, q, invert(pieces[i].color))
             /\ q \in Range(moves(pieces[i], pieces))
        /\ \E q \in ForwardDiagonals(pieces[i]) :
             /\ OccupiedBy(pieces, q, pieces[i].color)
             /\ q \notin Range(moves(pieces[i], pieces))

----------------------------------------------------------------------------
----------------------------------------------------------------------------
(* C12: in every board reached from Board::new by move_piece calls that    *)
(* return (any from holding a piece, any to # from, generated or not), no  *)
(* two pieces share a position: get_piece finds at most one piece.         *)
C12_NoSharedSquare ==
    /\ NoSharedSquare(pieces)
    /\ \A i \in 1..Len(pieces) :
         Cardinality(PiecesAt(pieces, pieces[i].position)) = 1

\* a second call has moved a piece onto an occupied square
C12_Witness ==
    /\ moves_made = 2
    /\ Returned
    /\ is_some(call.ret)
    /\ Len(pieces) < Len(pre)

----------------------------------------------------------------------------
(* C13: in every board reached from Board::new by picking any piece and    *)
(* moving it to a destination its generator returns, every piece is        *)
(* on-board and no pawn stands on row 0 or row 7.                          *)
C13_OnBoardNoPawnOnBackRows ==
    \A i \in 1..Len(pieces) :
        /\ pieces[i].position.column \in 0..7
        /\ pieces[i].position.row \in 0..7
        /\ pieces[i].kind = "Pawn" => pieces[i].position.row \notin {0, 7}

\* a pawn has arrived on row 7 by a generated move
C13_Witness ==
    /\ Returned
    /\ Mover.kind = "Pawn"
    /\ call.to.row = 7
    /\ unwrap(get_piece(pieces, call.to)).kind = "Queen"

----------------------------------------------------------------------------
(* C14: in every board reached from Board::new by generated moves, each    *)
(* color has exactly one King: no generated move captures a king.          *)
C14_OneKingPerColor ==
    \A color \in Colors :
        Cardinality({ i \in 1..Len(pieces) :
                        pieces[i].kind = "King" /\ pieces[i].color = color }) = 1

----------------------------------------------------------------------------
(* C15: computing the moves of a king terminates on every board, boards    *)
(* that hold both kings included: while the call is in progress neither   *)
(* king_moves nor all_attacks is entered a second time (they never call    *)
(* each other in a cycle), and the call returns.                           *)
FrameCount(fn) == Cardinality({ n \in 1..Len(stack) : stack[n].fn = fn })

NoReentry == \A fn \in {"king_moves", "all_attacks"} : FrameCount(fn) <= 1

KingCallRunning == Len(stack) > 0 /\ stack[1].piece.kind = "King"

KingCallReturned ==
    /\ Len(stack) = 0
    /\ call.op = "moves"
    /\ call.outcome = "returned"

----------------------------------------------------------------------------
(* C16: in every GameState reached through square_clicked requests, those  *)
(* that fail on the database included, whenever selected is Some(p) a      *)
(* piece stands at p and possible_moves is the move set of that piece on   *)
(* the current board; no request panics on the unwrap of the selected      *)
(* piece or inside move_piece.                                             *)
C16_SelectionConsistent ==
    /\ is_some(selected) =>
         /\ is_some(get_piece(pieces, unwrap(selected)))
         /\ possible_moves =
              piece_possible_moves(unwrap(get_piece(pieces, unwrap(selected))), pieces)
    /\ call.outcome # "panicked"

====
